---- MODULE Spec2Model ----
(***************************************************************************)
(* Model of the PDF coordinates viewer (the App component of the page      *)
(* mounted at "/").  One action per event handler or per synchronous       *)
(* segment of an asynchronous handler (the code between two awaits).       *)
(* React state updates queued inside one segment are applied when the      *)
(* segment ends, the last update of a state variable winning.              *)
(* JavaScript arrays are sequences: array index idx is position idx + 1.   *)
(***************************************************************************)
EXTENDS Integers, Sequences, FiniteSets, TLC

VARIABLES
    mounted,      \* the mount effect (useEffect) has run
    canvas,       \* the drawing surface: width, height, base raster, markers
    fileInput,    \* value of the file input element ("" when cleared)
    coordinates,  \* useState: transient cursor coordinate
    error,        \* useState: error message
    isLoading,    \* useState: loading flag
    landmarks,    \* useState: landmark list
    pdfPage,      \* useState: document handle
    viewport,     \* useState: viewport
    loads,        \* renderPdf invocations in flight, oldest first
    repaints,     \* reloadCanvasWithLandmarks invocations awaiting the render
    last          \* the handler segment that ran last, with its inputs

vars == <<mounted, canvas, fileInput, coordinates, error, isLoading,
          landmarks, pdfPage, viewport, loads, repaints, last>>

----------------------------------------------------------------------------
\* Bounds of the model.

MaxLandmarks == 1      \* longest landmark list under Spec
MaxLoads == 2          \* renderPdf invocations in flight at once under Spec
MaxRepaints == 1       \* overlay repaints in flight at once under Spec
MaxStoreLen == 3       \* longest landmark list under SpecStore
MaxStoreRepaints == 1  \* overlay repaints in flight at once under SpecStore

----------------------------------------------------------------------------
\* Values.

Null == [null |-> TRUE]
NoError == "null"

DefaultWidth == 794
DefaultHeight == 1123

PdfMime == "application/pdf"

\* The files the user can pick.  type is the declared media type, valid tells
\* whether the library decodes and rasterizes the bytes, width and height are
\* the dimensions of page 1 at scale 1.
FileA == [name |-> "A", type |-> "application/pdf", valid |-> TRUE,
          width |-> 612, height |-> 792]
FileB == [name |-> "B", type |-> "application/pdf", valid |-> TRUE,
          width |-> 595, height |-> 842]
FileX == [name |-> "X", type |-> "application/pdf", valid |-> FALSE,
          width |-> 300, height |-> 400]
FileT == [name |-> "T", type |-> "text/plain", valid |-> FALSE,
          width |-> 0, height |-> 0]
Files == {FileA, FileB, FileX, FileT}

\* Pointer positions in half pixels (client coordinates may be fractional
\* once the bounding box offset is subtracted).
RectLeft2 == 21
RectTop2 == 40
OnePosition == {[clientX2 |-> 260, clientY2 |-> 720]}
ClientPositions == OnePosition \cup {[clientX2 |-> 120, clientY2 |-> 140]}

\* Math.round of v/2: the nearest integer, halves rounded up.
MathRound2(v2) == (v2 + 1) \div 2

\* event.clientX - rect.left, event.clientY - rect.top, rounded.
CanvasPoint(ev) == [x |-> MathRound2(ev.clientX2 - RectLeft2),
                    y |-> MathRound2(ev.clientY2 - RectTop2)]

\* The sequence without its j-th element: a settled invocation goes away.
RemoveAt(seq, j) == SubSeq(seq, 1, j - 1) \o SubSeq(seq, j + 1, Len(seq))

\* page.getViewport({ scale: 1 })
GetViewport(file) == [width |-> file.width, height |-> file.height]

\* The page handle of a decoded file.
PageOf(file) == [doc |-> file.name, pageNumber |-> 1]

----------------------------------------------------------------------------
\* The drawing surface.

\* Assigning canvas.width / canvas.height clears the bitmap.
Resized(w, h) == [width |-> w, height |-> h, base |-> "transparent",
                  markers |-> <<>>]

\* context.fillRect(0, 0, width, height) in white
FillWhite(c) == [c EXCEPT !.base = "white", !.markers = <<>>]

\* The surface after drawBlankPage(width, height).
BlankCanvas(w, h) == FillWhite(Resized(w, h))

\* page.render paints the page over the whole surface.
PaintPage(c, page) == [c EXCEPT !.base = page.doc, !.markers = <<>>]

\* currentLandmarks.forEach: markers drawn in order, labelled index + 1.
RECURSIVE DrawMarkers(_, _, _)
DrawMarkers(c, currentLandmarks, index) ==
    IF index >= Len(currentLandmarks) THEN c
    ELSE DrawMarkers(
            [c EXCEPT !.markers = Append(@,
                [x |-> currentLandmarks[index + 1].x,
                 y |-> currentLandmarks[index + 1].y,
                 label |-> index + 1])],
            currentLandmarks, index + 1)

\* The landmark list as rendered: "idx + 1. X: lm.x, Y: lm.y" and a Delete
\* button bound to idx.
LandmarkListItems(lms) ==
    [k \in 1..Len(lms) |->
        [label |-> (k - 1) + 1, x |-> lms[k].x, y |-> lms[k].y,
         deleteIdx |-> k - 1]]

----------------------------------------------------------------------------
Init ==
    /\ mounted = FALSE
    /\ canvas = Resized(300, 150)
    /\ fileInput = ""
    /\ coordinates = Null
    /\ error = NoError
    /\ isLoading = FALSE
    /\ landmarks = <<>>
    /\ pdfPage = Null
    /\ viewport = Null
    /\ loads = <<>>
    /\ repaints = <<>>
    /\ last = [op |-> "init"]

\* useEffect(() => { ... drawBlankPage(); }, [])
Mount ==
    /\ ~mounted
    /\ mounted' = TRUE
    /\ canvas' = BlankCanvas(DefaultWidth, DefaultHeight)
    /\ error' = NoError
    /\ last' = [op |-> "mount"]
    /\ UNCHANGED <<fileInput, coordinates, isLoading, landmarks, pdfPage,
                   viewport, loads, repaints>>

\* handleMouseMove
HandleMouseMove(ev) ==
    /\ mounted
    /\ coordinates' = CanvasPoint(ev)
    /\ last' = [op |-> "move"]
    /\ UNCHANGED <<mounted, canvas, fileInput, error, isLoading, landmarks,
                   pdfPage, viewport, loads, repaints>>

\* handleMouseLeave without setCoordinates(null).
HandleMouseLeaveKeeps ==
    /\ mounted
    /\ last' = [op |-> "leave"]
    /\ UNCHANGED <<mounted, canvas, fileInput, coordinates, error, isLoading,
                   landmarks, pdfPage, viewport, loads, repaints>>

\* handleMouseLeave
HandleMouseLeave ==
    /\ mounted
    /\ coordinates' = Null
    /\ last' = [op |-> "leave"]
    /\ UNCHANGED <<mounted, canvas, fileInput, error, isLoading, landmarks,
                   pdfPage, viewport, loads, repaints>>

----------------------------------------------------------------------------
\* Loading a file.

\* renderPdf, up to reader.readAsArrayBuffer(file): the canvas and its context
\* exist once mounted, so the early return is not taken.
RenderPdfStart(file) ==
    /\ isLoading' = TRUE
    /\ error' = NoError
    /\ loads' = Append(loads, [file |-> file, pc |-> "reading"])

\* handleFileChange without the media type check.
HandleFileChangeAnyType(files) ==
    /\ mounted
    /\ fileInput' = IF files = <<>> THEN "" ELSE files[1].name
    /\ last' = [op |-> "select", files |-> files]
    /\ IF files = <<>>
       THEN /\ error' = "No file selected."
            /\ UNCHANGED <<isLoading, loads>>
       ELSE RenderPdfStart(files[1])
    /\ UNCHANGED <<mounted, canvas, coordinates, landmarks, pdfPage,
                   viewport, repaints>>

\* handleFileChange; files is the selection of the input element (at most one
\* file).
HandleFileChange(files) ==
    /\ mounted
    /\ fileInput' = IF files = <<>> THEN "" ELSE files[1].name
    /\ last' = [op |-> "select", files |-> files]
    /\ IF files = <<>>
       THEN /\ error' = "No file selected."
            /\ UNCHANGED <<isLoading, loads>>
       ELSE IF files[1].type # PdfMime
       THEN /\ error' = "Invalid file type. Please upload a PDF."
            /\ UNCHANGED <<isLoading, loads>>
       ELSE RenderPdfStart(files[1])
    /\ UNCHANGED <<mounted, canvas, coordinates, landmarks, pdfPage,
                   viewport, repaints>>

\* reader.onload up to the first await: the bytes were read, getDocument is
\* called.
ReaderOnload(i) ==
    /\ loads[i].pc = "reading"
    /\ loads' = [loads EXCEPT ![i].pc = "decoding"]
    /\ last' = [op |-> "onload", file |-> loads[i].file.name]
    /\ UNCHANGED <<mounted, canvas, fileInput, coordinates, error, isLoading,
                   landmarks, pdfPage, viewport, repaints>>

\* The read fails: the reader has no error handler, onload never runs.
ReaderError(i) ==
    /\ loads[i].pc = "reading"
    /\ loads' = RemoveAt(loads, i)
    /\ last' = [op |-> "readError", file |-> loads[i].file.name]
    /\ UNCHANGED <<mounted, canvas, fileInput, coordinates, error, isLoading,
                   landmarks, pdfPage, viewport, repaints>>

\* getDocument(...).promise and then pdf.getPage(1) resolve (nothing is
\* written between the two awaits); the canvas takes the viewport's
\* dimensions and page.render is called.
GetPageResolved(i) ==
    /\ loads[i].pc = "decoding"
    /\ LET vp == GetViewport(loads[i].file)
       IN  canvas' = Resized(vp.width, vp.height)
    /\ loads' = [loads EXCEPT ![i].pc = "rendering"]
    /\ last' = [op |-> "gotPage", file |-> loads[i].file.name]
    /\ UNCHANGED <<mounted, fileInput, coordinates, error, isLoading,
                   landmarks, pdfPage, viewport, repaints>>

\* The render task of the load paints the page on the canvas.
RenderPaint(i) ==
    /\ loads[i].pc = "rendering"
    /\ canvas' = PaintPage(canvas, PageOf(loads[i].file))
    /\ loads' = [loads EXCEPT ![i].pc = "painted"]
    /\ last' = [op |-> "painted", file |-> loads[i].file.name]
    /\ UNCHANGED <<mounted, fileInput, coordinates, error, isLoading,
                   landmarks, pdfPage, viewport, repaints>>

\* The completion installing a document only when none is installed.
RenderResolvedFirstWins(i) ==
    /\ loads[i].pc = "painted"
    /\ loads[i].file.valid
    /\ pdfPage' = IF pdfPage = Null THEN PageOf(loads[i].file) ELSE pdfPage
    /\ viewport' = IF viewport = Null THEN GetViewport(loads[i].file)
                                      ELSE viewport
    /\ landmarks' = <<>>
    /\ isLoading' = FALSE
    /\ loads' = RemoveAt(loads, i)
    /\ last' = [op |-> "loadDone", file |-> loads[i].file.name]
    /\ UNCHANGED <<mounted, canvas, fileInput, coordinates, error,
                   repaints>>

\* The completion without setLandmarks([]).
RenderResolvedKeepsLandmarks(i) ==
    /\ loads[i].pc = "painted"
    /\ loads[i].file.valid
    /\ pdfPage' = PageOf(loads[i].file)
    /\ viewport' = GetViewport(loads[i].file)
    /\ isLoading' = FALSE
    /\ loads' = RemoveAt(loads, i)
    /\ last' = [op |-> "loadDone", file |-> loads[i].file.name]
    /\ UNCHANGED <<mounted, canvas, fileInput, coordinates, error,
                   landmarks, repaints>>

\* page.render(...).promise resolves: the rest of the try block and finally.
RenderResolved(i) ==
    /\ loads[i].pc = "painted"
    /\ loads[i].file.valid
    /\ pdfPage' = PageOf(loads[i].file)
    /\ viewport' = GetViewport(loads[i].file)
    /\ landmarks' = <<>>
    /\ isLoading' = FALSE
    /\ loads' = RemoveAt(loads, i)
    /\ last' = [op |-> "loadDone", file |-> loads[i].file.name]
    /\ UNCHANGED <<mounted, canvas, fileInput, coordinates, error,
                   repaints>>

\* setError(`Failed to load PDF. ${...}`)
FailedToLoad(message) == "Failed to load PDF. " \o message

\* The catch block painting the blank page before it sets the message.
CatchErrorUpdatesMessageLast(message) == <<NoError, FailedToLoad(message)>>

\* The updates of error queued by the catch block, in order: setError(...)
\* and then the setError(null) of drawBlankPage.
CatchErrorUpdates(message) == <<FailedToLoad(message), NoError>>

\* A library promise of the load rejects (decode, page access or
\* rasterization): catch and finally.
LoadRejected(i) ==
    /\ loads[i].pc \in {"decoding", "rendering", "painted"}
    /\ ~loads[i].file.valid
    /\ LET updates == CatchErrorUpdates("Invalid PDF structure.")
       IN  error' = updates[Len(updates)]
    /\ canvas' = BlankCanvas(DefaultWidth, DefaultHeight)
    /\ isLoading' = FALSE
    /\ loads' = RemoveAt(loads, i)
    /\ last' = [op |-> "loadFailed", file |-> loads[i].file.name]
    /\ UNCHANGED <<mounted, fileInput, coordinates, landmarks, pdfPage,
                   viewport, repaints>>

----------------------------------------------------------------------------
\* Reset, landmarks and the overlay repaint.

\* handleReset without setPdfPage(null) and setViewport(null).
HandleResetKeepsHandle ==
    /\ mounted
    /\ canvas' = BlankCanvas(DefaultWidth, DefaultHeight)
    /\ error' = NoError
    /\ fileInput' = ""
    /\ landmarks' = <<>>
    /\ last' = [op |-> "reset"]
    /\ UNCHANGED <<mounted, coordinates, isLoading, pdfPage, viewport,
                   loads, repaints>>

\* handleReset
HandleReset ==
    /\ mounted
    /\ canvas' = BlankCanvas(DefaultWidth, DefaultHeight)
    /\ error' = NoError
    /\ fileInput' = ""
    /\ landmarks' = <<>>
    /\ pdfPage' = Null
    /\ viewport' = Null
    /\ last' = [op |-> "reset"]
    /\ UNCHANGED <<mounted, coordinates, isLoading, loads, repaints>>

\* reloadCanvasWithLandmarks up to the await: nothing without a document,
\* otherwise pdfPage.render is called with the current viewport.
ReloadCanvasStart(currentLandmarks) ==
    IF pdfPage = Null \/ viewport = Null
    THEN UNCHANGED repaints
    ELSE repaints' = Append(repaints,
                [page |-> pdfPage, viewport |-> viewport,
                 currentLandmarks |-> currentLandmarks, pc |-> "rendering"])

\* [{ x, y }, ...landmarks]
SpreadFront(lms, point) == <<point>> \o lms

\* [...landmarks, { x, y }]
Spread(lms, point) == Append(lms, point)

\* handleCanvasClick
HandleCanvasClick(ev) ==
    /\ mounted
    /\ LET newLandmarks == Spread(landmarks, CanvasPoint(ev))
       IN  /\ landmarks' = newLandmarks
           /\ ReloadCanvasStart(newLandmarks)
    /\ last' = [op |-> "click", ev |-> ev]
    /\ UNCHANGED <<mounted, canvas, fileInput, coordinates, error, isLoading,
                   pdfPage, viewport, loads>>

\* The filter comparing the 1-based position with indexToDelete.
RECURSIVE FilterNotPosition(_, _, _)
FilterNotPosition(lms, idx, indexToDelete) ==
    IF idx >= Len(lms) THEN <<>>
    ELSE (IF idx + 1 # indexToDelete THEN <<lms[idx + 1]>> ELSE <<>>)
         \o FilterNotPosition(lms, idx + 1, indexToDelete)

\* landmarks.splice(indexToDelete, 1) on a copy: a negative index counts
\* from the end of the list.
SpliceOne(lms, idx, indexToDelete) ==
    LET start == IF indexToDelete < 0
                 THEN (IF Len(lms) + indexToDelete < 0 THEN 0
                       ELSE Len(lms) + indexToDelete)
                 ELSE (IF indexToDelete > Len(lms) THEN Len(lms)
                       ELSE indexToDelete)
    IN  SubSeq(lms, idx + 1, start) \o SubSeq(lms, start + 2, Len(lms))

\* landmarks.filter((_, idx) => idx !== indexToDelete), scanning from idx.
RECURSIVE FilterNotIndex(_, _, _)
FilterNotIndex(lms, idx, indexToDelete) ==
    IF idx >= Len(lms) THEN <<>>
    ELSE (IF idx # indexToDelete THEN <<lms[idx + 1]>> ELSE <<>>)
         \o FilterNotIndex(lms, idx + 1, indexToDelete)

\* handleDeleteLandmark
HandleDeleteLandmark(indexToDelete) ==
    /\ mounted
    /\ LET newLandmarks == FilterNotIndex(landmarks, 0, indexToDelete)
       IN  /\ landmarks' = newLandmarks
           /\ ReloadCanvasStart(newLandmarks)
    /\ last' = [op |-> "delete", indexToDelete |-> indexToDelete]
    /\ UNCHANGED <<mounted, canvas, fileInput, coordinates, error, isLoading,
                   pdfPage, viewport, loads>>

\* The render task of an overlay repaint paints the page on the canvas.
RepaintPaint(j) ==
    /\ repaints[j].pc = "rendering"
    /\ canvas' = PaintPage(canvas, repaints[j].page)
    /\ repaints' = [repaints EXCEPT ![j].pc = "painted"]
    /\ last' = [op |-> "repaintPainted"]
    /\ UNCHANGED <<mounted, fileInput, coordinates, error, isLoading,
                   landmarks, pdfPage, viewport, loads>>

\* pdfPage.render(...).promise resolves in reloadCanvasWithLandmarks: the
\* markers of the list the repaint was started with are drawn.
RepaintResolved(j) ==
    /\ repaints[j].pc = "painted"
    /\ canvas' = DrawMarkers(canvas, repaints[j].currentLandmarks, 0)
    /\ repaints' = RemoveAt(repaints, j)
    /\ last' = [op |-> "repaintDone"]
    /\ UNCHANGED <<mounted, fileInput, coordinates, error, isLoading,
                   landmarks, pdfPage, viewport, loads>>

----------------------------------------------------------------------------
\* The environment: what the user and the library do.

\* The selections the file input can deliver: a file, or none.
Selections == {<<>>} \cup {<<f>> : f \in Files}

\* A selection that starts a load.
StartsLoad(files) == files # <<>> /\ files[1].type = PdfMime

\* A click or a delete starts an overlay repaint when a document is held.
StartsRepaint == pdfPage # Null /\ viewport # Null

\* The user selects files (also while loads are in flight), resets, and
\* clicks at one position of the surface.  Hovering is left to NextStore: it
\* writes only coordinates, which no handler reads.
Next ==
    \/ Mount
    \/ \E files \in Selections :
            /\ StartsLoad(files) => Len(loads) < MaxLoads
            /\ HandleFileChange(files)
    \/ \E i \in DOMAIN loads : ReaderOnload(i)
    \/ \E i \in DOMAIN loads : ReaderError(i)
    \/ \E i \in DOMAIN loads : GetPageResolved(i)
    \/ \E i \in DOMAIN loads : RenderPaint(i)
    \/ \E i \in DOMAIN loads : RenderResolved(i)
    \/ \E i \in DOMAIN loads : LoadRejected(i)
    \/ HandleReset
    \/ \E ev \in OnePosition :
            /\ Len(landmarks) < MaxLandmarks
            /\ StartsRepaint => Len(repaints) < MaxRepaints
            /\ HandleCanvasClick(ev)
    \/ \E k \in DOMAIN LandmarkListItems(landmarks) :
            /\ StartsRepaint => Len(repaints) < MaxRepaints
            /\ HandleDeleteLandmark(LandmarkListItems(landmarks)[k].deleteIdx)
    \/ \E j \in DOMAIN repaints : RepaintPaint(j)
    \/ \E j \in DOMAIN repaints : RepaintResolved(j)

Spec == Init /\ [][Next]_vars

\* The user works on one document at a time (file A, no second selection
\* while a load is in flight), hovers, and places landmarks at either
\* position.
NextStore ==
    \/ Mount
    \/ \E ev \in OnePosition : HandleMouseMove(ev)
    \/ HandleMouseLeave
    \/ loads = <<>> /\ HandleFileChange(<<FileA>>)
    \/ \E i \in DOMAIN loads : ReaderOnload(i)
    \/ \E i \in DOMAIN loads : GetPageResolved(i)
    \/ \E i \in DOMAIN loads : RenderPaint(i)
    \/ \E i \in DOMAIN loads : RenderResolved(i)
    \/ HandleReset
    \/ \E ev \in ClientPositions :
            /\ Len(landmarks) < MaxStoreLen
            /\ StartsRepaint => Len(repaints) < MaxStoreRepaints
            /\ HandleCanvasClick(ev)
    \/ \E k \in DOMAIN LandmarkListItems(landmarks) :
            /\ StartsRepaint => Len(repaints) < MaxStoreRepaints
            /\ HandleDeleteLandmark(LandmarkListItems(landmarks)[k].deleteIdx)
    \/ \E j \in DOMAIN repaints : RepaintPaint(j)
    \/ \E j \in DOMAIN repaints : RepaintResolved(j)

SpecStore == Init /\ [][NextStore]_vars

\* handleDeleteLandmark as a function of its arguments: the landmark list
\* is any list the user can have built by clicking, on the blank page or on
\* document A with its markers drawn, and the index is any integer near the
\* list's range.
StoreLists ==
    UNION {[1..n -> {CanvasPoint(ev) : ev \in ClientPositions}] :
                n \in 0..MaxStoreLen}

InitRemoveAt ==
    /\ mounted = TRUE
    /\ fileInput \in {"", "A"}
    /\ coordinates = Null
    /\ error = NoError
    /\ isLoading = FALSE
    /\ landmarks \in StoreLists
    /\ pdfPage = IF fileInput = "" THEN Null ELSE PageOf(FileA)
    /\ viewport = IF fileInput = "" THEN Null ELSE GetViewport(FileA)
    /\ canvas = IF fileInput = ""
                THEN BlankCanvas(DefaultWidth, DefaultHeight)
                ELSE DrawMarkers(
                        PaintPage(Resized(FileA.width, FileA.height),
                                  PageOf(FileA)),
                        landmarks, 0)
    /\ loads = <<>>
    /\ repaints = <<>>
    /\ last = [op |-> "init"]

NextRemoveAt ==
    \/ \E indexToDelete \in -2..(MaxStoreLen + 1) :
            /\ StartsRepaint => Len(repaints) < MaxStoreRepaints
            /\ HandleDeleteLandmark(indexToDelete)
    \/ \E j \in DOMAIN repaints : RepaintPaint(j)
    \/ \E j \in DOMAIN repaints : RepaintResolved(j)

SpecRemoveAt == InitRemoveAt /\ [][NextRemoveAt]_vars

\* One step of the load at position i of loads: the read or a library
\* promise settles.
LoadStep(i) ==
    \/ ReaderOnload(i)
    \/ ReaderError(i)
    \/ GetPageResolved(i)
    \/ RenderPaint(i)
    \/ RenderResolved(i)
    \/ LoadRejected(i)

\* The user selects files and resets; the file read and every library
\* promise of a load in flight eventually resolves or rejects.
NextLive ==
    \/ Mount
    \/ \E files \in Selections :
            /\ StartsLoad(files) => Len(loads) < MaxLoads
            /\ HandleFileChange(files)
    \/ \E i \in DOMAIN loads : LoadStep(i)
    \/ HandleReset

SpecLive ==
    /\ Init
    /\ [][NextLive]_vars
    /\ WF_vars(Mount)
    /\ \A i \in 1..(MaxLoads + 1) : WF_vars(i \in DOMAIN loads /\ LoadStep(i))

----------------------------------------------------------------------------
\* Properties.

\* The default blank page: 794 by 1123, solid white, nothing drawn on it.
DefaultBlankPage ==
    [width |-> 794, height |-> 1123, base |-> "white", markers |-> <<>>]

\* A document handle is held.
HandleHeld == pdfPage # Null /\ viewport # Null

\* No handler is mid-execution.
Quiescent == mounted /\ loads = <<>> /\ repaints = <<>>

\* C1: after a load of a corrupt PDF has finished (decode or rasterization
\* rejected), the surface is the default blank page and the error message is
\* not empty.
C1_CorruptLoadShowsError ==
    last.op = "loadFailed" => canvas = DefaultBlankPage /\ error # NoError

\* C2: once no handler is mid-execution, the surface has the dimensions of
\* the viewport while a document handle is held, and is 794 by 1123
\* otherwise.
C2_SurfaceMatchesViewport ==
    Quiescent =>
        IF HandleHeld
        THEN canvas.width = viewport.width /\ canvas.height = viewport.height
        ELSE canvas.width = 794 /\ canvas.height = 1123

\* C3: after a load that failed in decode or rasterization has completed,
\* the document handle and the viewport are empty.
C3_FailedLoadInvalidatesHandle ==
    last.op = "loadFailed" => pdfPage = Null /\ viewport = Null

\* C4: immediately after Reset the surface is the blank 794 by 1123 white
\* page without page raster or markers, the landmark list is empty, the file
\* input is cleared, and the document handle and the viewport are empty.
C4_ResetReturnsToBlank ==
    last.op = "reset" =>
        /\ canvas = DefaultBlankPage
        /\ landmarks = <<>>
        /\ fileInput = ""
        /\ pdfPage = Null
        /\ viewport = Null

\* Reset has just run while a load and an overlay repaint of a landmark
\* were in flight (so a document had been loaded and clicked on).
C4_Witness ==
    /\ last.op = "reset"
    /\ loads # <<>>
    /\ repaints # <<>>
    /\ repaints[1].currentLandmarks # <<>>
    /\ canvas = DefaultBlankPage
    /\ landmarks = <<>>

\* C5: a selection of no file, or of a file whose declared type is not
\* 'application/pdf', starts no load and changes nothing but the error
\* message (and the input's own value), and the error message is not empty
\* afterwards.
C5_RejectedSelectionOnlySetsError ==
    [][(last'.op = "select" /\ (last'.files = <<>>
                                \/ last'.files[1].type # "application/pdf"))
        => /\ loads' = loads
           /\ canvas' = canvas
           /\ landmarks' = landmarks
           /\ pdfPage' = pdfPage
           /\ viewport' = viewport
           /\ isLoading' = isLoading
           /\ repaints' = repaints
           /\ error' # NoError]_vars

\* A file of another type has just been selected over a rendered document
\* with a landmark: the page is still there and the error is shown.
C5_Witness ==
    /\ last.op = "select"
    /\ last.files # <<>>
    /\ last.files[1].type = "text/plain"
    /\ HandleHeld
    /\ canvas.base = pdfPage.doc
    /\ landmarks # <<>>
    /\ error # NoError

\* The file of a name.
FileNamed(name) == CHOOSE f \in Files : f.name = name

\* C6: a selection made while a load is in flight leaves that load running,
\* and every load that completes successfully installs its own document
\* handle and viewport, so of two overlapping loads the one whose completion
\* ran last is the one installed.
C6_LastCompletionWins ==
    [][/\ last'.op = "select" => SubSeq(loads', 1, Len(loads)) = loads
       /\ last'.op = "loadDone" =>
            /\ pdfPage' = [doc |-> last'.file, pageNumber |-> 1]
            /\ viewport' = [width |-> FileNamed(last'.file).width,
                            height |-> FileNamed(last'.file).height]]_vars

\* Both loads are over and A's completion ran last: the surface still has
\* the dimensions B's load gave it after A's load had sized it, so B's load
\* overlapped A's and completed before it.
C6_Witness ==
    /\ last = [op |-> "loadDone", file |-> "A"]
    /\ loads = <<>>
    /\ canvas.width = FileB.width
    /\ canvas.height = FileB.height
    /\ pdfPage = [doc |-> "A", pageNumber |-> 1]
    /\ viewport = [width |-> FileA.width, height |-> FileA.height]

\* The canvas offset each pointer position stands for.
ClickedPoint(ev) ==
    IF ev.clientX2 = 260 THEN [x |-> 120, y |-> 340] ELSE [x |-> 50, y |-> 50]

\* C7: a click appends exactly one entry, the clicked point, at the end of
\* the landmark list and leaves every earlier entry where it was; the list
\* shows entry k with index k.  (N clicks on an empty list so give N entries,
\* the k-th being the k-th click.)
C7_ClickAppendsOne ==
    [][last'.op = "click" =>
        /\ Len(landmarks') = Len(landmarks) + 1
        /\ landmarks'[Len(landmarks')] = ClickedPoint(last'.ev)
        /\ \A k \in 1..Len(landmarks) : landmarks'[k] = landmarks[k]
        /\ \A k \in 1..Len(landmarks') :
              /\ LandmarkListItems(landmarks')[k].label = k
              /\ LandmarkListItems(landmarks')[k].x = landmarks'[k].x
              /\ LandmarkListItems(landmarks')[k].y = landmarks'[k].y]_vars

\* The third click in a row on a loaded document, at (120, 340), (50, 50) and
\* (120, 340).
C7_Witness ==
    /\ last.op = "click"
    /\ HandleHeld
    /\ landmarks = <<[x |-> 120, y |-> 340], [x |-> 50, y |-> 50],
                     [x |-> 120, y |-> 340]>>

\* C8: deleting index i of a list of length N, 0 <= i < N, gives a list of
\* length N - 1: the entries below i stay, every entry at j > i moves to
\* j - 1, and its displayed number drops by one.
C8_DeleteShiftsDown ==
    [][(/\ last'.op = "delete"
        /\ last'.indexToDelete >= 0
        /\ last'.indexToDelete < Len(landmarks)) =>
        LET i == last'.indexToDelete
            N == Len(landmarks)
        IN  /\ Len(landmarks') = N - 1
            /\ \A j \in 0..(i - 1) : landmarks'[j + 1] = landmarks[j + 1]
            /\ \A j \in (i + 1)..(N - 1) :
                  /\ landmarks'[(j - 1) + 1] = landmarks[j + 1]
                  /\ LandmarkListItems(landmarks')[(j - 1) + 1].label
                        = LandmarkListItems(landmarks)[j + 1].label - 1]_vars

\* The middle entry of three has just been deleted: one entry stayed, one
\* moved down.
C8_Witness ==
    /\ last = [op |-> "delete", indexToDelete |-> 1]
    /\ landmarks = <<[x |-> 120, y |-> 340], [x |-> 50, y |-> 50]>>

\* C9: deleting an index outside [0, N) of a list of length N leaves the
\* landmark list as it was.
C9_DeleteOutOfRangeNoOp ==
    [][(/\ last'.op = "delete"
        /\ (last'.indexToDelete < 0
             \/ last'.indexToDelete >= Len(landmarks))) =>
        landmarks' = landmarks]_vars

\* Index -1 has just been deleted from a list of two different points.
C9_Witness ==
    /\ last = [op |-> "delete", indexToDelete |-> -1]
    /\ landmarks = <<[x |-> 120, y |-> 340], [x |-> 50, y |-> 50]>>

\* C10: when a load completes successfully the landmark list is empty; when
\* a load fails the landmark list is left as it was.
C10_SuccessfulLoadClearsLandmarks ==
    [][/\ last'.op = "loadDone" => landmarks' = <<>>
       /\ last'.op = "loadFailed" => landmarks' = landmarks]_vars

\* A load has just completed and the list is empty, while the surface still
\* shows the marker of a landmark placed while that load was in flight (its
\* overlay repaint finished after the load's render task had painted).
C10_Witness ==
    /\ last.op = "loadDone"
    /\ landmarks = <<>>
    /\ canvas.markers # <<>>

\* C11: every load that enters Loading eventually leaves it: whenever the
\* loading flag is on, it is eventually off, given that the file read and the
\* library calls each eventually resolve or reject.
C11_LoadingEventuallyEnds == isLoading ~> ~isLoading

\* C12: every invocation of paint-blank (at startup, on Reset, as the
\* fallback after a decode failure) leaves the error indicator empty once
\* the state updates of its handler are applied.
C12_PaintBlankClearsError ==
    last.op \in {"mount", "reset", "loadFailed"} => error = NoError

\* The fallback has just painted the blank page after a failed load, and no
\* error is shown.
C12_Witness ==
    /\ last = [op |-> "loadFailed", file |-> "X"]
    /\ canvas = DefaultBlankPage
    /\ error = NoError

\* The markers an overlay repaint draws for a list: entry k (from 0) at its
\* point, labelled k + 1.
MarkersOf(lms) ==
    [k \in 1..Len(lms) |-> [x |-> lms[k].x, y |-> lms[k].y, label |-> k]]

\* C13 as stated: every click and every delete starts an overlay repaint
\* with the new full sequence.
C13_EveryClickRepaints ==
    [][last'.op \in {"click", "delete"} =>
        /\ Len(repaints') = Len(repaints) + 1
        /\ repaints'[Len(repaints')].currentLandmarks = landmarks']_vars

\* C15: whenever no load and no overlay repaint is pending, the markers on
\* the surface are exactly the current landmark sequence, marker k labelled
\* k.
C15_MarkersMatchLandmarks ==
    Quiescent => canvas.markers = MarkersOf(landmarks)

\* C14: pointer-move changes only the transient cursor coordinate and
\* pointer-leave sets it to empty; neither changes the landmark list, the
\* document handle, the viewport, the surface, the error message or the
\* loading flag.
C14_PointerOnlyMovesCursor ==
    [][last'.op \in {"move", "leave"} =>
        /\ last'.op = "leave" => coordinates' = Null
        /\ last'.op = "move" => coordinates' \in {ClickedPoint(ev) :
                                                    ev \in ClientPositions}
        /\ landmarks' = landmarks
        /\ pdfPage' = pdfPage
        /\ viewport' = viewport
        /\ canvas' = canvas
        /\ error' = error
        /\ isLoading' = isLoading
        /\ fileInput' = fileInput
        /\ loads' = loads
        /\ repaints' = repaints]_vars

\* The pointer has just left the surface of a loaded document with
\* landmarks and drawn markers: the cursor coordinate is empty.
C14_Witness ==
    /\ last.op = "leave"
    /\ coordinates = Null
    /\ HandleHeld
    /\ Len(landmarks) = 2
    /\ canvas.markers = MarkersOf(landmarks)

\* C16: once Reset has run the surface stays blank, without document handle
\* and viewport, until another file is selected: the step that follows a
\* Reset, unless it is a selection, leaves all of that in place (so a load
\* started before the Reset neither repaints nor installs its handle).
C16_StaysBlankAfterReset ==
    [][(last.op = "reset" /\ last'.op # "select") =>
        /\ canvas' = DefaultBlankPage
        /\ pdfPage' = Null
        /\ viewport' = Null]_vars

\* C17: the loading indicator is on exactly when at least one load is in
\* flight.
C17_LoadingIffInFlight ==
    mounted => (isLoading <=> loads # <<>>)
====
